---- MODULE Spec2Model ----
(***************************************************************************)
(* Model of datasets/custom_datasets/instance_coco_custom_dataset_mapper.py *)
(* (InstanceCOCOCustomNewBaselineDatasetMapper and its helpers).            *)
(*                                                                          *)
(* Three specifications share the module:                                   *)
(*   SpecBuild  build_transform_gen applied to a configuration;             *)
(*   SpecTexts  _get_texts applied to a list of class ids;                  *)
(*   Spec       one __call__ of a constructed mapper, step by step.         *)
(*                                                                          *)
(* Python values: a call's outcome is a record [exc, value] with exc the    *)
(* name of the exception raised, or "none".  Numbers are integers: the      *)
(* float()/int() casts of the source keep the numeric value.                *)
(***************************************************************************)
EXTENDS Integers, Sequences, FiniteSets, TLC

VARIABLES
    cfg,            \* SpecBuild: the configuration node handed to build_transform_gen
    is_train_arg,   \* SpecBuild: the is_train argument
    built,          \* SpecBuild: outcome of build_transform_gen
    bpc,            \* SpecBuild: "start" | "done"
    self,           \* the mapper object: fields set by __init__
    classes_in,     \* SpecTexts: the class ids handed to _get_texts
    texts_out,      \* SpecTexts: outcome of _get_texts
    tpc,            \* SpecTexts: "start" | "done"
    pc,             \* Spec: position inside __call__
    heap,           \* Spec: the Python objects reachable from the caller's record
    given,          \* Spec: the caller's record when __call__ was entered: its address,
                    \*       its objects and the value read through it
    dataset_dict,   \* Spec: local name, an address in heap
    defined,        \* Spec: the local names of __call__ that are bound
    image,          \* Spec: local (before line 269 the image read, after it the transformed one)
    annos,          \* Spec: local
    masks,          \* Spec: local
    boxes,          \* Spec: local
    label_dict,     \* Spec: local
    padding_mask,   \* Spec: local
    image_,         \* Spec: local, output image of the copy-paste augmentation
    transforms,     \* Spec: local, the TransformList sampled on line 269
    n_sampled,      \* Spec: how many times the transform generators were sampled
    instances,      \* Spec: local
    paste_out,      \* Spec: what the copy-paste augmentation returned on line 268
    ret             \* Spec: outcome of __call__ ([exc, value])

build_vars == <<cfg, is_train_arg, built, bpc>>
texts_vars == <<classes_in, texts_out, tpc>>
call_vars  == <<pc, heap, given, dataset_dict, defined, image, annos, masks, boxes,
                label_dict, padding_mask, image_, transforms, n_sampled, instances, paste_out, ret>>
vars == <<cfg, is_train_arg, built, bpc, self, classes_in, texts_out, tpc,
          pc, heap, given, dataset_dict, defined, image, annos, masks, boxes,
          label_dict, padding_mask, image_, transforms, n_sampled, instances, paste_out, ret>>

----------------------------------------------------------------------------
(* Bounds *)

MaxImageSize == 4      \* cfg.INPUT.IMAGE_SIZE ranges over 1..MaxImageSize
MaxScale == 2          \* cfg.INPUT.MIN_SCALE <= cfg.INPUT.MAX_SCALE range over 1..MaxScale
MaxInst == 4           \* _get_texts: at most MaxInst class ids
MaxQueries == 3        \* num_queries ranges over 0..MaxQueries

Min(a, b) == IF a <= b THEN a ELSE b
Max(a, b) == IF a >= b THEN a ELSE b

Returned(v) == [exc |-> "none", value |-> v]
Raised(e)   == [exc |-> e, value |-> <<>>]

----------------------------------------------------------------------------
(* build_transform_gen *)

FlipModes == {"none", "horizontal", "vertical", "both"}

Configs ==
    [RANDOM_FLIP : FlipModes,
     IMAGE_SIZE  : 1..MaxImageSize,
     MIN_SCALE   : 1..MaxScale,
     MAX_SCALE   : 1..MaxScale]

\* T.RandomFlip(horizontal=..., vertical=...): detectron2's constructor rejects
\* a flip along both axes and a flip along none.
RandomFlip(horizontal, vertical) ==
    IF (horizontal /\ vertical) \/ (~horizontal /\ ~vertical)
    THEN Raised("ValueError")
    ELSE Returned([aug |-> "RandomFlip", horizontal |-> horizontal, vertical |-> vertical])

ResizeScale(min_scale, max_scale, target_height, target_width) ==
    [aug |-> "ResizeScale", min_scale |-> min_scale, max_scale |-> max_scale,
     target_height |-> target_height, target_width |-> target_width]

FixedSizeCrop(crop_size) ==
    [aug |-> "FixedSizeCrop", crop_size |-> crop_size]

\* A mutant: the flip is appended after the resize and the crop.
build_transform_gen_flip_last(c, is_train) ==
    IF ~is_train THEN Raised("AssertionError")
    ELSE
      LET image_size == c.IMAGE_SIZE
          tail == << ResizeScale(c.MIN_SCALE, c.MAX_SCALE, image_size, image_size),
                     FixedSizeCrop(<<image_size, image_size>>) >>
          flip == RandomFlip(c.RANDOM_FLIP = "horizontal", c.RANDOM_FLIP = "vertical")
      IN  IF c.RANDOM_FLIP # "none"
          THEN IF flip.exc # "none" THEN flip ELSE Returned(tail \o <<flip.value>>)
          ELSE Returned(tail)

build_transform_gen(c, is_train) ==
    IF ~is_train THEN Raised("AssertionError")
    ELSE
      LET image_size == c.IMAGE_SIZE
          min_scale  == c.MIN_SCALE
          max_scale  == c.MAX_SCALE
          tail == << ResizeScale(min_scale, max_scale, image_size, image_size),
                     FixedSizeCrop(<<image_size, image_size>>) >>
          flip == RandomFlip(c.RANDOM_FLIP = "horizontal", c.RANDOM_FLIP = "vertical")
      IN  IF c.RANDOM_FLIP # "none"
          THEN IF flip.exc # "none" THEN flip ELSE Returned(<<flip.value>> \o tail)
          ELSE Returned(tail)

----------------------------------------------------------------------------
(* _get_texts *)

\* meta.thing_classes of the training set: one distinct name per contiguous id.
class_names == <<"person", "car", "dog">>

ClassIds == 0 .. (Len(class_names) - 1)

DefaultText == "an instance photo"
Prompt(cls_name) == "a photo with a " \o cls_name

\* ["an instance photo"] * num_queries
Repeat(x, n) == [i \in 1..n |-> x]

\* lines 345-347: a zero count for every class name
ZeroCounts == [name \in {class_names[i] : i \in 1..Len(class_names)} |-> 0]

\* lines 231-233: count the instances of each class
RECURSIVE CountClasses(_, _, _)
CountClasses(classes, k, num_class_obj) ==
    IF k > Len(classes) THEN num_class_obj
    ELSE CountClasses(classes, k + 1,
            [num_class_obj EXCEPT ![class_names[classes[k] + 1]] = @ + 1])

\* A mutant: the guard of line 239 is off by one.
LoopBreaks_off_by_one(num, texts) == num > Len(texts)

\* line 239: if num >= len(texts): break
LoopBreaks(num, texts) == num >= Len(texts)

\* lines 238-242: the inner loop, `left` iterations remaining.  The state of
\* the loops is [texts, num, exc]; an assignment past the end of a list raises.
RECURSIVE InnerLoop(_, _, _)
InnerLoop(st, cls_name, left) ==
    IF left = 0 \/ st.exc # "none" THEN st
    ELSE IF LoopBreaks(st.num, st.texts) THEN st
    ELSE IF st.num + 1 > Len(st.texts) THEN [st EXCEPT !.exc = "IndexError"]
    ELSE InnerLoop([st EXCEPT !.texts = [st.texts EXCEPT ![st.num + 1] = Prompt(cls_name)],
                              !.num = st.num + 1],
                   cls_name, left - 1)

\* lines 236-242: the outer loop over class_names, from index i on
RECURSIVE OuterLoop(_, _, _)
OuterLoop(st, i, num_class_obj) ==
    IF i > Len(class_names) \/ st.exc # "none" THEN st
    ELSE LET cls_name == class_names[i]
         IN  OuterLoop(IF num_class_obj[cls_name] > 0
                       THEN InnerLoop(st, cls_name, num_class_obj[cls_name])
                       ELSE st,
                       i + 1, num_class_obj)

_get_texts(slf, classes, num_class_obj) ==
    LET texts  == Repeat(DefaultText, slf.num_queries)
        counts == CountClasses(classes, 1, num_class_obj)
        st     == OuterLoop([texts |-> texts, num |-> 0, exc |-> "none"], 1, counts)
    IN  IF st.exc # "none" THEN Raised(st.exc) ELSE Returned(st.texts)

----------------------------------------------------------------------------
(* Geometry.  A point is <<x, y>>, a box is <<x1, y1, x2, y2>>, a polygon is  *)
(* the flat list <<x, y, x, y, ...>> of COCO.  The masks of the model are     *)
(* unions of axis-aligned pixel rectangles, so every polygon is a rectangle   *)
(* and stays one under a flip, a resize and a crop.                           *)

RoundDiv(a, b) == (2 * a + b) \div (2 * b)

PolyXs(poly) == {poly[2 * k - 1] : k \in 1..(Len(poly) \div 2)}
PolyYs(poly) == {poly[2 * k] : k \in 1..(Len(poly) \div 2)}
SetMin(S) == CHOOSE m \in S : \A e \in S : m <= e
SetMax(S) == CHOOSE m \in S : \A e \in S : m >= e

RectPolygon(x1, y1, x2, y2) == <<x1, y1, x1, y2, x2, y2, x2, y1>>

\* A primitive transform of detectron2 (fvcore): [op, p], p its four parameters.
HFlipTransform(w) == [op |-> "HFlip", p |-> <<w, 0, 0, 0>>]
VFlipTransform(h) == [op |-> "VFlip", p |-> <<h, 0, 0, 0>>]
NoOpTransform     == [op |-> "NoOp", p |-> <<0, 0, 0, 0>>]
ResizeTransform(h, w, new_h, new_w) == [op |-> "Resize", p |-> <<h, w, new_h, new_w>>]
CropTransform(x0, y0, w, h) == [op |-> "Crop", p |-> <<x0, y0, w, h>>]
PadTransform(x0, y0, x1, y1) == [op |-> "Pad", p |-> <<x0, y0, x1, y1>>]

\* Transform.apply_coords on one point
ApplyCoord(t, pt) ==
    CASE t.op = "HFlip"  -> <<t.p[1] - pt[1], pt[2]>>
      [] t.op = "VFlip"  -> <<pt[1], t.p[1] - pt[2]>>
      [] t.op = "Resize" -> <<(pt[1] * t.p[4]) \div t.p[2], (pt[2] * t.p[3]) \div t.p[1]>>
      [] t.op = "Crop"   -> <<pt[1] - t.p[1], pt[2] - t.p[2]>>
      [] t.op = "Pad"    -> <<pt[1] + t.p[1], pt[2] + t.p[2]>>
      [] OTHER           -> pt

\* Transform.apply_box on one XYXY box: the corners are mapped and the box is
\* the extent of the mapped corners.
ApplyBox1(t, b) ==
    LET c1 == ApplyCoord(t, <<b[1], b[2]>>)
        c2 == ApplyCoord(t, <<b[3], b[4]>>)
    IN  <<Min(c1[1], c2[1]), Min(c1[2], c2[2]), Max(c1[1], c2[1]), Max(c1[2], c2[2])>>

\* Transform.apply_polygons on the polygons of one instance.  Every transform
\* maps the points, except the crop, which intersects each polygon with the
\* crop window, drops what has no area left and shifts the rest.
ApplyPolygon1(t, poly) ==
    IF t.op = "Crop"
    THEN LET x1 == Max(SetMin(PolyXs(poly)), t.p[1])
             y1 == Max(SetMin(PolyYs(poly)), t.p[2])
             x2 == Min(SetMax(PolyXs(poly)), t.p[1] + t.p[3])
             y2 == Min(SetMax(PolyYs(poly)), t.p[2] + t.p[4])
         IN  IF x1 < x2 /\ y1 < y2
             THEN <<RectPolygon(x1 - t.p[1], y1 - t.p[2], x2 - t.p[1], y2 - t.p[2])>>
             ELSE <<>>
    ELSE << [k \in 1..Len(poly) |->
               IF k % 2 = 1 THEN ApplyCoord(t, <<poly[k], poly[k + 1]>>)[1]
                            ELSE ApplyCoord(t, <<poly[k - 1], poly[k]>>)[2]] >>

RECURSIVE FlatMapPolygons(_, _, _)
FlatMapPolygons(t, polys, k) ==
    IF k > Len(polys) THEN <<>>
    ELSE ApplyPolygon1(t, polys[k]) \o FlatMapPolygons(t, polys, k + 1)

\* The shape <<h, w>> of an image after one primitive transform
ApplyShape(t, shape) ==
    CASE t.op = "Resize" -> <<t.p[3], t.p[4]>>
      [] t.op = "Crop"   -> <<Min(t.p[4], Max(shape[1] - t.p[2], 0)),
                              Min(t.p[3], Max(shape[2] - t.p[1], 0))>>
      [] t.op = "Pad"    -> <<shape[1] + t.p[2] + t.p[4], shape[2] + t.p[1] + t.p[3]>>
      [] OTHER           -> shape

\* TransformList: the primitives applied in order
RECURSIVE apply_box(_, _, _)
apply_box(tfms, b, k) ==
    IF k > Len(tfms) THEN b ELSE apply_box(tfms, ApplyBox1(tfms[k], b), k + 1)

RECURSIVE apply_polygons(_, _, _)
apply_polygons(tfms, polys, k) ==
    IF k > Len(tfms) THEN polys
    ELSE apply_polygons(tfms, FlatMapPolygons(tfms[k], polys, 1), k + 1)

RECURSIVE apply_shape(_, _, _)
apply_shape(tfms, shape, k) ==
    IF k > Len(tfms) THEN shape ELSE apply_shape(tfms, ApplyShape(tfms[k], shape), k + 1)

\* TransformList.apply_segmentation on an all-ones array: the array is known by
\* its shape and by the box of the cells that still hold a one (the padding of
\* the crop fills with zero); region is <<x1, y1, x2, y2>>, cells x1..x2-1;
\* inverted tells whether line 288 has negated it.
ApplySeg1(t, seg) ==
    LET moved == ApplyBox1(t, seg.region)
        shape == ApplyShape(t, seg.shape)
    IN  [shape    |-> shape,
         region   |-> IF t.op = "Crop"
                      THEN <<Max(moved[1], 0), Max(moved[2], 0),
                             Min(moved[3], shape[2]), Min(moved[4], shape[1])>>
                      ELSE moved,
         inverted |-> seg.inverted]

RECURSIVE apply_segmentation(_, _, _)
apply_segmentation(tfms, seg, k) ==
    IF k > Len(tfms) THEN seg
    ELSE apply_segmentation(tfms, ApplySeg1(tfms[k], seg), k + 1)

----------------------------------------------------------------------------
(* T.apply_transform_gens: each generator samples its transform on the image *)
(* as transformed so far.  The random draws of one sampling are the record  *)
(* r = [flip, scale, u]: whether RandomFlip flips, the scale ResizeScale     *)
(* draws, and the fraction u / OffsetSteps FixedSizeCrop draws for its offset*)

OffsetSteps == 2

Draws == [flip : BOOLEAN, scale : 1..MaxScale, u : 0..OffsetSteps]

get_transform(gen, shape, r) ==
    CASE gen.aug = "RandomFlip" ->
            IF ~r.flip THEN <<NoOpTransform>>
            ELSE IF gen.horizontal THEN <<HFlipTransform(shape[2])>>
            ELSE <<VFlipTransform(shape[1])>>
      [] gen.aug = "ResizeScale" ->
            LET sh == gen.target_height * r.scale
                sw == gen.target_width * r.scale
            IN  IF sh * shape[2] <= sw * shape[1]
                THEN <<ResizeTransform(shape[1], shape[2], sh, RoundDiv(shape[2] * sh, shape[1]))>>
                ELSE <<ResizeTransform(shape[1], shape[2], RoundDiv(shape[1] * sw, shape[2]), sw)>>
      [] gen.aug = "FixedSizeCrop" ->
            LET out_h == gen.crop_size[1]
                out_w == gen.crop_size[2]
                off_y == RoundDiv(Max(shape[1] - out_h, 0) * r.u, OffsetSteps)
                off_x == RoundDiv(Max(shape[2] - out_w, 0) * r.u, OffsetSteps)
            IN  << CropTransform(off_x, off_y, out_w, out_h),
                   PadTransform(0, 0, Max(out_w - shape[2], 0), Max(out_h - shape[1], 0)) >>

\* Draws the generators ignore are fixed, so that one sampling is one draw.
DrawUsed(gens, r) ==
    /\ (\A k \in 1..Len(gens) : gens[k].aug # "RandomFlip") => ~r.flip
    /\ \A k \in 1..Len(gens) :
          gens[k].aug = "ResizeScale" => gens[k].min_scale <= r.scale /\ r.scale <= gens[k].max_scale

RECURSIVE SampleAll(_, _, _, _)
SampleAll(gens, shape, r, k) ==
    IF k > Len(gens) THEN <<>>
    ELSE LET t == get_transform(gens[k], shape, r)
         IN  t \o SampleAll(gens, apply_shape(t, shape, 1), r, k + 1)

apply_transform_gens(gens, img, r) ==
    LET tfms == SampleAll(gens, img.shape, r, 1)
    IN  [image |-> [shape |-> apply_shape(tfms, img.shape, 1), src |-> img.src,
                    applied |-> img.applied \o tfms],
         transforms |-> tfms]

----------------------------------------------------------------------------
(* Python objects.  heap is the list of the mutable objects (dicts and       *)
(* lists), an address is an index of it.  A cell is what a dict key or a     *)
(* list slot holds: an immutable value or a reference to an object.          *)

Val(x) == [t |-> "val", v |-> x]
Ref(a) == [t |-> "ref", v |-> a]

DictObj(items) == [kind |-> "dict", body |-> items]
ListObj(elems) == [kind |-> "list", body |-> elems]

\* d[key] = cell
SetKey(d, key, cell) == [k \in (DOMAIN d) \cup {key} |-> IF k = key THEN cell ELSE d[k]]
\* d.pop(key, None)
PopKey(d, key) == [k \in (DOMAIN d) \ {key} |-> d[k]]

HeapSetKey(h, addr, key, cell) ==
    [h EXCEPT ![addr] = DictObj(SetKey(h[addr].body, key, cell))]
HeapPopKey(h, addr, key) ==
    [h EXCEPT ![addr] = DictObj(PopKey(h[addr].body, key))]

\* The value an observer reads through a cell: references followed.
RECURSIVE DeepValue(_, _)
DeepValue(h, cell) ==
    IF cell.t = "val" THEN cell.v
    ELSE LET o == h[cell.v]
         IN  IF o.kind = "dict"
             THEN [k \in DOMAIN o.body |-> DeepValue(h, o.body[k])]
             ELSE [i \in 1..Len(o.body) |-> DeepValue(h, o.body[i])]

\* copy.deepcopy: every object reachable from the cell is allocated anew.
\* The result is [heap, cell].
RECURSIVE CopyCell(_, _)
RECURSIVE CopyList(_, _, _, _)
RECURSIVE CopyDict(_, _, _, _)

CopyList(h, elems, k, out) ==
    IF k > Len(elems) THEN [heap |-> h, out |-> out]
    ELSE LET r == CopyCell(h, elems[k])
         IN  CopyList(r.heap, elems, k + 1, Append(out, r.cell))

CopyDict(h, items, todo, out) ==
    IF todo = {} THEN [heap |-> h, out |-> out]
    ELSE LET key == CHOOSE k \in todo : TRUE
             r   == CopyCell(h, items[key])
         IN  CopyDict(r.heap, items, todo \ {key}, SetKey(out, key, r.cell))

CopyCell(h, cell) ==
    IF cell.t = "val" THEN [heap |-> h, cell |-> cell]
    ELSE LET o == h[cell.v]
         IN  IF o.kind = "list"
             THEN LET r == CopyList(h, o.body, 1, <<>>)
                  IN  [heap |-> Append(r.heap, ListObj(r.out)), cell |-> Ref(Len(r.heap) + 1)]
             ELSE LET r == CopyDict(h, o.body, DOMAIN o.body, <<>>)
                  IN  [heap |-> Append(r.heap, DictObj(r.out)), cell |-> Ref(Len(r.heap) + 1)]

\* A mutant: no copy is made, the local name is bound to the caller's object.
deepcopy_alias(h, addr) == [heap |-> h, addr |-> addr]

\* line 254: dataset_dict = copy.deepcopy(dataset_dict)
deepcopy(h, addr) ==
    LET r == CopyCell(h, Ref(addr)) IN [heap |-> r.heap, addr |-> r.cell.v]

\* Allocation of a list of new dicts: [heap, addr], addr the list's address.
RECURSIVE AllocDicts(_, _, _, _)
AllocDicts(h, dicts, k, refs) ==
    IF k > Len(dicts) THEN [heap |-> Append(h, ListObj(refs)), addr |-> Len(h) + 1]
    ELSE AllocDicts(Append(h, DictObj(dicts[k])), dicts, k + 1, Append(refs, Ref(Len(h) + 1)))

----------------------------------------------------------------------------
(* The helpers of the module and the library calls of __call__ *)

\* utils.read_image: every image of the dataset has this shape <<h, w>>.
ImageShape == <<2, 4>>

\* lines 42-75.  The segmentation of an annotation is the list the loop of
\* line 45 iterates: each element is [kind, polys] with kind what the
\* isinstance tests of lines 47-56 see ("float_list", "list_of_lists",
\* "ndarray", anything else) and polys the polygons it adds to masks_.
\* masks_ is never emptied: the k-th mask rasterises the polygons of the
\* elements 1..k.  The result is known by its shape and its layers.
RECURSIVE ConvertLoop(_, _, _, _)
ConvertLoop(segmentations, k, masks_, layers) ==
    IF k > Len(segmentations) THEN Returned(layers)
    ELSE LET e == segmentations[k]
         IN  IF e.kind \in {"float_list", "list_of_lists", "ndarray"}
             THEN ConvertLoop(segmentations, k + 1, masks_ \o e.polys,
                              Append(layers, masks_ \o e.polys))
             ELSE Raised("ValueError")

convert_coco_poly_to_mask_(segmentations, height, width) ==
    LET r == ConvertLoop(segmentations, 1, <<>>, <<>>)
    IN  IF r.exc # "none" THEN r
        ELSE Returned([lib    |-> IF Len(r.value) = 1 THEN "numpy" ELSE "torch",
                       shape  |-> <<Len(r.value), height, width>>,
                       layers |-> r.value])

\* line 260: the list comprehension over annos; the first failure ends it.
RECURSIVE ConvertAll(_, _, _, _)
ConvertAll(as, k, shape, out) ==
    IF k > Len(as) THEN Returned(out)
    ELSE LET r == convert_coco_poly_to_mask_(as[k].segmentation, shape[1], shape[2])
         IN  IF r.exc # "none" THEN r ELSE ConvertAll(as, k + 1, shape, Append(out, r.value))

\* lines 26-40: one mask per instance, rasterised from its polygons
convert_coco_poly_to_mask(segmentations, height, width) ==
    [shape  |-> <<Len(segmentations), height, width>>,
     layers |-> segmentations]

\* cv2.findContours on one connected component, a pixel rectangle
\* <<x1, y1, x2, y2>> (both ends included): its corner pixels.
FindContour(comp) ==
    IF comp[1] = comp[3] /\ comp[2] = comp[4] THEN << <<comp[1], comp[2]>> >>
    ELSE IF comp[1] = comp[3] \/ comp[2] = comp[4]
    THEN << <<comp[1], comp[2]>>, <<comp[3], comp[4]>> >>
    ELSE << <<comp[1], comp[2]>>, <<comp[1], comp[4]>>,
            <<comp[3], comp[4]>>, <<comp[3], comp[2]>> >>

\* line 107: contour.flatten()
Flatten(contour) ==
    [k \in 1..(2 * Len(contour)) |-> contour[(k + 1) \div 2][IF k % 2 = 1 THEN 1 ELSE 2]]

\* lines 101-110: the polygons of one mask (a list of components)
RECURSIVE MaskPolygons(_, _)
MaskPolygons(mask, k) ==
    IF k > Len(mask) THEN <<>>
    ELSE LET contour == FindContour(mask[k])
             polygon == Flatten(contour)
         IN  (IF Len(contour) < 3 THEN <<>>
              ELSE IF Len(polygon) >= 6 THEN <<polygon>> ELSE <<>>)
             \o MaskPolygons(mask, k + 1)

\* lines 77-114
binary_masks_to_polygons(ms) == [i \in 1..Len(ms) |-> MaskPolygons(ms[i], 1)]

\* A mutant: the box is written as it came, corner to corner.
new_annotation_xyxy(polygons, box, label) ==
    [iscrowd      |-> 0,
     bbox         |-> <<box[1], box[2], box[3], box[4]>>,
     category_id  |-> label,
     segmentation |-> polygons,
     bbox_mode    |-> "XYWH_ABS"]

\* lines 273-283: the annotation built for one instance
new_annotation(polygons, box, label) ==
    LET x1 == box[1]
        y1 == box[2]
        x2 == box[3]
        y2 == box[4]
        w  == x2 - x1
        h  == y2 - y1
    IN  [iscrowd      |-> 0,
         bbox         |-> <<x1, y1, w, h>>,
         category_id  |-> label,
         segmentation |-> polygons,
         bbox_mode    |-> "XYWH_ABS"]

\* lines 270-283: the loop over range(len(masks))
new_annotations(polys, bxs, labels) ==
    [i \in 1..Len(polys) |-> new_annotation(polys[i], bxs[i], labels[i])]

\* BoxMode.convert(bbox, bbox_mode, BoxMode.XYXY_ABS)
ToXYXY(bbox, mode) ==
    IF mode = "XYWH_ABS" THEN <<bbox[1], bbox[2], bbox[1] + bbox[3], bbox[2] + bbox[4]>>
    ELSE bbox

\* A mutant: the flips of the transform list are not applied to the annotation.
NoFlips(tfms) == SelectSeq(tfms, LAMBDA t : t.op \notin {"HFlip", "VFlip"})
transform_instance_annotations_unflipped(annotation, tfms, image_size) ==
    LET bx == apply_box(NoFlips(tfms), ToXYXY(annotation.bbox, annotation.bbox_mode), 1)
    IN  [k \in DOMAIN annotation |->
           CASE k = "bbox" -> <<Min(Max(bx[1], 0), image_size[2]), Min(Max(bx[2], 0), image_size[1]),
                                Min(Max(bx[3], 0), image_size[2]), Min(Max(bx[4], 0), image_size[1])>>
             [] k = "bbox_mode" -> "XYXY_ABS"
             [] k = "segmentation" -> apply_polygons(NoFlips(tfms), annotation.segmentation, 1)
             [] OTHER -> annotation[k]]

\* line 326: utils.transform_instance_annotations(obj, transforms, image_shape):
\* the box goes to XYXY, through the transforms and is clipped to the image;
\* the polygons go through the transforms.
transform_instance_annotations(annotation, tfms, image_size) ==
    LET bx == apply_box(tfms, ToXYXY(annotation.bbox, annotation.bbox_mode), 1)
    IN  [k \in DOMAIN annotation |->
           CASE k = "bbox" -> <<Min(Max(bx[1], 0), image_size[2]), Min(Max(bx[2], 0), image_size[1]),
                                Min(Max(bx[3], 0), image_size[2]), Min(Max(bx[4], 0), image_size[1])>>
             [] k = "bbox_mode" -> "XYXY_ABS"
             [] k = "segmentation" -> apply_polygons(tfms, annotation.segmentation, 1)
             [] OTHER -> annotation[k]]

\* PolygonMasks.get_bounding_boxes for an instance that has polygons
PolygonsBox(polys) ==
    LET xs == UNION {PolyXs(polys[k]) : k \in 1..Len(polys)}
        ys == UNION {PolyYs(polys[k]) : k \in 1..Len(polys)}
    IN  <<SetMin(xs), SetMin(ys), SetMax(xs), SetMax(ys)>>

\* line 335: utils.filter_empty_instances keeps the instances that have a
\* polygon and whose box (line 333: the extent of the polygons) has a width
\* and a height.
KeepInstance(a) ==
    /\ Len(a.segmentation) > 0
    /\ LET b == PolygonsBox(a.segmentation) IN b[3] > b[1] /\ b[4] > b[2]

\* lines 331-342 for a non-empty list of transformed annotations
BuildInstances(as, image_shape) ==
    LET kept == SelectSeq(as, KeepInstance)
    IN  [image_size |-> image_shape,
         gt_boxes   |-> [i \in 1..Len(kept) |-> PolygonsBox(kept[i].segmentation)],
         gt_classes |-> [i \in 1..Len(kept) |-> kept[i].category_id],
         gt_masks   |-> convert_coco_poly_to_mask(
                            [i \in 1..Len(kept) |-> kept[i].segmentation],
                            image_shape[1], image_shape[2])]

----------------------------------------------------------------------------
(* The mapper object *)

\* lines 208-224.  The outcome is that of build_transform_gen when it raises.
from_config(c, is_train) ==
    LET tfm_gens == build_transform_gen(c, is_train)
    IN  IF tfm_gens.exc # "none" THEN tfm_gens
        ELSE Returned([is_train    |-> is_train,
                       tfm_gens    |-> tfm_gens.value,
                       num_queries |-> c.NUM_OBJECT_QUERIES - c.N_CTX])

\* lines 162-206: the fields __init__ sets that the model reads
MapperInit(is_train, kwargs) ==
    [tfm_gens           |-> kwargs.tfm_gens,
     is_train           |-> is_train,
     num_queries        |-> kwargs.num_queries,
     things             |-> [i \in 1..Len(class_names) |-> i - 1],
     use_big_copy_paste |-> TRUE]

NoMapper == MapperInit(TRUE, [tfm_gens |-> <<>>, num_queries |-> 0])

----------------------------------------------------------------------------
(* Inputs of __call__ *)

MaxAnnos == 1          \* a record carries at most MaxAnnos annotations
MaxOut == 2            \* the copy-paste augmentation returns at most MaxOut instances

SeqsUpTo(S, n) == UNION {[1..k -> S] : k \in 0..n}

\* Annotations in Detectron2 Dataset format: a polygon instance with keypoints,
\* a polygon instance in two parts, and a crowd region whose segmentation is
\* an RLE dict (the loop of line 45 then sees its two keys).
AnnoPerson ==
    [bbox |-> <<0, 0, 2, 1>>, bbox_mode |-> "XYWH_ABS", category_id |-> 0, iscrowd |-> 0,
     segmentation |-> << [kind |-> "float_list", polys |-> <<RectPolygon(0, 0, 2, 1)>>] >>,
     keypoints |-> <<1, 1, 2>>]
AnnoDog ==
    [bbox |-> <<1, 0, 3, 2>>, bbox_mode |-> "XYWH_ABS", category_id |-> 2, iscrowd |-> 0,
     segmentation |-> << [kind |-> "float_list", polys |-> <<RectPolygon(1, 0, 2, 1)>>],
                         [kind |-> "float_list", polys |-> <<RectPolygon(3, 0, 4, 2)>>] >>]
AnnoCrowd ==
    [bbox |-> <<0, 0, 4, 2>>, bbox_mode |-> "XYWH_ABS", category_id |-> 1, iscrowd |-> 1,
     segmentation |-> << [kind |-> "str", polys |-> <<>>], [kind |-> "str", polys |-> <<>>] >>]

AnnoCatalogue == {AnnoPerson, AnnoDog, AnnoCrowd}

\* What the copy-paste augmentation may return for one instance: a mask (its
\* connected components), an XYXY box and a label.
PastePerson == [mask |-> << <<0, 0, 2, 1>> >>, box |-> <<0, 0, 3, 2>>, label |-> 0]
PasteDog    == [mask |-> << <<1, 0, 3, 1>>, <<0, 0, 0, 0>> >>, box |-> <<0, 0, 4, 2>>, label |-> 2]
PasteCar    == [mask |-> << <<2, 0, 2, 1>> >>, box |-> <<2, 0, 3, 2>>, label |-> 1]

PasteCatalogue == {PastePerson, PasteDog, PasteCar}

Lift(rec) == [k \in DOMAIN rec |-> Val(rec[k])]

\* The caller's record, as objects: [heap, addr]
RecordObjects(has_size, has_annotations, as) ==
    LET base  == [file_name |-> Val("image.jpg"), image_id |-> Val(1)]
        sized == IF has_size
                 THEN SetKey(SetKey(base, "height", Val(ImageShape[1])), "width", Val(ImageShape[2]))
                 ELSE base
        lst   == AllocDicts(<<>>, [i \in 1..Len(as) |-> Lift(as[i])], 1, <<>>)
    IN  IF has_annotations
        THEN [heap |-> Append(lst.heap, DictObj(SetKey(sized, "annotations", Ref(lst.addr)))),
              addr |-> Len(lst.heap) + 1]
        ELSE [heap |-> <<DictObj(sized)>>, addr |-> 1]

NoImage    == [shape |-> <<0, 0>>, src |-> "unbound", applied |-> <<>>]
NoPadding  == [shape |-> <<0, 0>>, region |-> <<0, 0, 0, 0>>, inverted |-> FALSE]
NoInstances == [image_size |-> <<0, 0>>, gt_boxes |-> <<>>, gt_classes |-> <<>>,
                gt_masks |-> convert_coco_poly_to_mask(<<>>, 0, 0)]
NoPaste    == [masks |-> <<>>, boxes |-> <<>>, labels |-> <<>>]

CallIdle ==
    /\ pc = "unused" /\ heap = <<>> /\ given = [addr |-> 0, objects |-> <<>>, value |-> <<>>]
    /\ dataset_dict = 0 /\ defined = {} /\ image = NoImage /\ annos = <<>>
    /\ masks = <<>> /\ boxes = <<>> /\ label_dict = [labels |-> <<>>]
    /\ padding_mask = NoPadding /\ image_ = NoImage /\ transforms = <<>>
    /\ n_sampled = 0 /\ instances = NoInstances /\ paste_out = NoPaste
    /\ ret = Returned(<<>>)

BuildIdle ==
    /\ cfg = [RANDOM_FLIP |-> "none", IMAGE_SIZE |-> 1, MIN_SCALE |-> 1, MAX_SCALE |-> 1]
    /\ is_train_arg = TRUE /\ built = Returned(<<>>) /\ bpc = "unused"

TextsIdle ==
    /\ classes_in = <<>> /\ texts_out = Returned(<<>>) /\ tpc = "unused"

----------------------------------------------------------------------------
(* SpecBuild: build_transform_gen(cfg, is_train) *)

InitBuild ==
    /\ cfg \in {c \in Configs : c.MIN_SCALE <= c.MAX_SCALE}
    /\ is_train_arg \in BOOLEAN
    /\ built = Returned(<<>>)
    /\ bpc = "start"
    /\ self = NoMapper
    /\ TextsIdle /\ CallIdle

Build ==
    /\ bpc = "start"
    /\ built' = build_transform_gen(cfg, is_train_arg)
    /\ bpc' = "done"
    /\ UNCHANGED <<cfg, is_train_arg, self, texts_vars, call_vars>>

NextBuild == Build

SpecBuild == InitBuild /\ [][NextBuild]_vars

----------------------------------------------------------------------------
(* SpecTexts: self._get_texts(classes, num_class_obj), called as on line 350 *)

InitTexts ==
    /\ \E nq \in 0..MaxQueries :
          self = MapperInit(TRUE, [tfm_gens |-> <<>>, num_queries |-> nq])
    /\ classes_in \in SeqsUpTo(ClassIds, MaxInst)
    /\ texts_out = Returned(<<>>)
    /\ tpc = "start"
    /\ BuildIdle /\ CallIdle

GetTexts ==
    /\ tpc = "start"
    /\ texts_out' = _get_texts(self, classes_in, ZeroCounts)
    /\ tpc' = "done"
    /\ UNCHANGED <<classes_in, self, build_vars, call_vars>>

NextTexts == GetTexts

SpecTexts == InitTexts /\ [][NextTexts]_vars

----------------------------------------------------------------------------
(* Spec: one call mapper(dataset_dict), lines 246-358 *)

\* The configurations a mapper is built from.
CallConfigs ==
    [RANDOM_FLIP : {"none", "horizontal", "vertical"},
     IMAGE_SIZE  : {4},
     MIN_SCALE   : {1},
     MAX_SCALE   : {MaxScale},
     NUM_OBJECT_QUERIES : {3},
     N_CTX       : {2}]

Init ==
    /\ \E c \in CallConfigs, it \in BOOLEAN :
          self = MapperInit(it, from_config(c, TRUE).value)
    /\ \E has_size \in BOOLEAN, has_annotations \in BOOLEAN,
          as \in SeqsUpTo(AnnoCatalogue, MaxAnnos) :
          /\ ~has_annotations => as = <<>>
          /\ LET r == RecordObjects(has_size, has_annotations, as)
             IN  /\ heap = r.heap
                 /\ given = [addr |-> r.addr, objects |-> r.heap,
                             value |-> DeepValue(r.heap, Ref(r.addr))]
    /\ pc = "start"
    /\ dataset_dict = 0 /\ defined = {} /\ image = NoImage /\ annos = <<>>
    /\ masks = <<>> /\ boxes = <<>> /\ label_dict = [labels |-> <<>>]
    /\ padding_mask = NoPadding /\ image_ = NoImage /\ transforms = <<>>
    /\ n_sampled = 0 /\ instances = NoInstances /\ paste_out = NoPaste
    /\ ret = Returned(<<>>)
    /\ BuildIdle /\ TextsIdle

\* utils.check_image_size(dataset_dict, image), line 256: [exc, value], value
\* the items of the dict afterwards.
check_image_size(d, img) ==
    IF /\ ("width" \in DOMAIN d \/ "height" \in DOMAIN d)
       /\ ~ ( /\ "width" \in DOMAIN d /\ "height" \in DOMAIN d
              /\ d["width"].v = img.shape[2] /\ d["height"].v = img.shape[1] )
    THEN Raised("SizeMismatchError")
    ELSE LET d1 == IF "width" \in DOMAIN d THEN d ELSE SetKey(d, "width", Val(img.shape[2]))
             d2 == IF "height" \in DOMAIN d1 THEN d1 ELSE SetKey(d1, "height", Val(img.shape[1]))
         IN  Returned(d2)

\* lines 254-266
Enter ==
    /\ pc = "start"
    /\ LET cp   == deepcopy(heap, given.addr)
           dd   == cp.addr
           img  == [shape |-> ImageShape, src |-> "file", applied |-> <<>>]
           chk  == check_image_size(cp.heap[dd].body, img)
           h1   == IF chk.exc = "none" THEN [cp.heap EXCEPT ![dd] = DictObj(chk.value)]
                   ELSE cp.heap
           d1   == h1[dd].body
           as   == IF "annotations" \in DOMAIN d1 THEN DeepValue(h1, d1["annotations"]) ELSE <<>>
           conv == ConvertAll(as, 1, img.shape, <<>>)
       IN  /\ dataset_dict' = dd
           /\ heap' = h1
           /\ image' = img
           /\ IF chk.exc # "none"
              THEN /\ pc' = "raised" /\ ret' = Raised(chk.exc)
                   /\ defined' = {"dataset_dict", "image"}
                   /\ UNCHANGED <<annos, masks, boxes, label_dict, padding_mask>>
              ELSE IF self.use_big_copy_paste /\ Len(as) > 0
              THEN IF conv.exc # "none"
                   THEN /\ pc' = "raised" /\ ret' = Raised(conv.exc)
                        /\ defined' = {"dataset_dict", "image", "annos"}
                        /\ annos' = as
                        /\ UNCHANGED <<masks, boxes, label_dict, padding_mask>>
                   ELSE /\ pc' = "entered" /\ ret' = ret
                        /\ annos' = as
                        /\ masks' = conv.value
                        /\ boxes' = [i \in 1..Len(as) |-> as[i].bbox]
                        /\ label_dict' = [labels |-> [i \in 1..Len(as) |-> as[i].category_id]]
                        /\ padding_mask' = [shape |-> img.shape,
                                            region |-> <<0, 0, img.shape[2], img.shape[1]>>,
                                            inverted |-> FALSE]
                        /\ defined' = {"dataset_dict", "image", "annos", "masks", "boxes",
                                       "labels", "label_dict", "padding_mask"}
              ELSE /\ pc' = "entered" /\ ret' = ret
                   /\ annos' = as
                   /\ padding_mask' = [shape |-> img.shape,
                                       region |-> <<0, 0, img.shape[2], img.shape[1]>>,
                                       inverted |-> FALSE]
                   /\ defined' = {"dataset_dict", "image", "annos", "padding_mask"}
                   /\ UNCHANGED <<masks, boxes, label_dict>>
    /\ UNCHANGED <<given, image_, transforms, n_sampled, instances, paste_out,
                   self, build_vars, texts_vars>>

\* line 268: the arguments are read, then the augmentation (a library) returns
\* an image of the same shape and aligned lists of masks, boxes and labels.
CopyPaste ==
    /\ pc = "entered"
    /\ \/ /\ ~({"masks", "boxes", "label_dict"} \subseteq defined)
          /\ pc' = "raised"
          /\ ret' = Raised("UnboundLocalError")
          /\ UNCHANGED <<image_, masks, boxes, label_dict, paste_out, defined>>
       \/ /\ {"masks", "boxes", "label_dict"} \subseteq defined
          /\ \E out \in SeqsUpTo(PasteCatalogue, MaxOut) :
                /\ image_' = [shape |-> image.shape, src |-> "copy_paste", applied |-> <<>>]
                /\ masks' = [i \in 1..Len(out) |-> out[i].mask]
                /\ boxes' = [i \in 1..Len(out) |-> out[i].box]
                /\ label_dict' = [labels |-> [i \in 1..Len(out) |-> out[i].label]]
                /\ paste_out' = [masks  |-> [i \in 1..Len(out) |-> out[i].mask],
                                 boxes  |-> [i \in 1..Len(out) |-> out[i].box],
                                 labels |-> [i \in 1..Len(out) |-> out[i].label]]
          /\ defined' = defined \cup {"image_"}
          /\ pc' = "pasted"
          /\ ret' = ret
    /\ UNCHANGED <<heap, given, dataset_dict, image, annos, padding_mask, transforms,
                   n_sampled, instances, self, build_vars, texts_vars>>

\* line 269: image, transforms = T.apply_transform_gens(self.tfm_gens, image_)
Sample ==
    /\ pc = "pasted"
    /\ \E r \in Draws :
          /\ DrawUsed(self.tfm_gens, r)
          /\ LET res == apply_transform_gens(self.tfm_gens, image_, r)
             IN  /\ image' = res.image
                 /\ transforms' = res.transforms
    /\ n_sampled' = n_sampled + 1
    /\ defined' = defined \cup {"transforms"}
    /\ pc' = "sampled"
    /\ UNCHANGED <<heap, given, dataset_dict, annos, masks, boxes, label_dict, padding_mask,
                   image_, instances, paste_out, ret, self, build_vars, texts_vars>>

\* lines 270-285
Regenerate ==
    /\ pc = "sampled"
    /\ LET polys == binary_masks_to_polygons(masks)
           na    == new_annotations(polys, boxes, label_dict.labels)
           alloc == AllocDicts(heap, [i \in 1..Len(na) |-> Lift(na[i])], 1, <<>>)
       IN  /\ masks' = polys
           /\ heap' = HeapSetKey(alloc.heap, dataset_dict, "annotations", Ref(alloc.addr))
    /\ defined' = defined \cup {"new_annotations"}
    /\ pc' = "regenerated"
    /\ UNCHANGED <<given, dataset_dict, image, annos, boxes, label_dict, padding_mask, image_,
                   transforms, n_sampled, instances, paste_out, ret, self,
                   build_vars, texts_vars>>

\* lines 287-296
Pack ==
    /\ pc = "regenerated"
    /\ LET pm == [apply_segmentation(transforms, padding_mask, 1) EXCEPT !.inverted = TRUE]
       IN  /\ padding_mask' = pm
           /\ heap' = HeapSetKey(HeapSetKey(heap, dataset_dict, "image", Val(image)),
                                 dataset_dict, "padding_mask", Val(pm))
    /\ defined' = defined \cup {"image_shape"}
    /\ pc' = "packed"
    /\ UNCHANGED <<given, dataset_dict, image, annos, masks, boxes, label_dict, image_,
                   transforms, n_sampled, instances, paste_out, ret, self,
                   build_vars, texts_vars>>

\* lines 298-301
ReturnInference ==
    /\ pc = "packed"
    /\ ~self.is_train
    /\ LET h1 == HeapPopKey(heap, dataset_dict, "annotations")
       IN  /\ heap' = h1
           /\ ret' = Returned(DeepValue(h1, Ref(dataset_dict)))
    /\ pc' = "done"
    /\ UNCHANGED <<given, dataset_dict, defined, image, annos, masks, boxes, label_dict,
                   padding_mask, image_, transforms, n_sampled, instances, paste_out,
                   self, build_vars, texts_vars>>

\* lines 319-342.  "annotations" is a key of dataset_dict since line 285.  The
\* annotation dicts are changed in place: "keypoints" is popped from each one,
\* and those that are no crowd are transformed; the list leaves the record.
\* An empty list gives Instances without gt_masks, which line 333 reads.
TransformAnnotations ==
    /\ pc = "packed"
    /\ self.is_train
    /\ "annotations" \in DOMAIN heap[dataset_dict].body
    /\ LET refs   == heap[heap[dataset_dict].body["annotations"].v].body
           addrs  == {refs[k].v : k \in 1..Len(refs)}
           h1     == [a \in 1..Len(heap) |->
                        IF a \in addrs THEN DictObj(PopKey(heap[a].body, "keypoints"))
                        ELSE heap[a]]
           IsObj(a) == (IF "iscrowd" \in DOMAIN h1[a].body THEN h1[a].body["iscrowd"].v ELSE 0) = 0
           New(a) == transform_instance_annotations(DeepValue(h1, Ref(a)), transforms, image.shape)
           h2     == [a \in 1..Len(heap) |->
                        IF a \in addrs /\ IsObj(a) THEN DictObj(Lift(New(a))) ELSE h1[a]]
           h3     == HeapPopKey(h2, dataset_dict, "annotations")
           kept   == SelectSeq(refs, LAMBDA c : IsObj(c.v))
           tas    == [i \in 1..Len(kept) |-> DeepValue(h3, kept[i])]
       IN  /\ heap' = h3
           /\ annos' = tas
           /\ IF Len(tas) = 0
              THEN /\ pc' = "raised"
                   /\ ret' = Raised("AttributeError")
                   /\ instances' = [NoInstances EXCEPT !.image_size = image.shape]
              ELSE /\ pc' = "transformed"
                   /\ ret' = ret
                   /\ instances' = BuildInstances(tas, image.shape)
    /\ defined' = defined \cup {"instances"}
    /\ UNCHANGED <<given, dataset_dict, image, masks, boxes, label_dict, padding_mask, image_,
                   transforms, n_sampled, paste_out, self, build_vars, texts_vars>>

\* lines 345-358
ReturnTraining ==
    /\ pc = "transformed"
    /\ LET text == _get_texts(self, instances.gt_classes, ZeroCounts)
           h1 == HeapSetKey(heap, dataset_dict, "instances", Val(instances))
           h2 == HeapSetKey(h1, dataset_dict, "orig_shape", Val(image.shape))
           h3 == HeapSetKey(h2, dataset_dict, "task", Val("The task is instance"))
           h4 == HeapSetKey(h3, dataset_dict, "text", Val(text.value))
           h5 == HeapSetKey(h4, dataset_dict, "thing_ids", Val(self.things))
       IN  IF "instances" \notin defined
           THEN /\ pc' = "raised" /\ ret' = Raised("UnboundLocalError") /\ heap' = heap
           ELSE IF text.exc # "none"
           THEN /\ pc' = "raised" /\ ret' = Raised(text.exc) /\ heap' = heap
           ELSE /\ pc' = "done"
                /\ heap' = h5
                /\ ret' = Returned(DeepValue(h5, Ref(dataset_dict)))
    /\ UNCHANGED <<given, dataset_dict, defined, image, annos, masks, boxes, label_dict,
                   padding_mask, image_, transforms, n_sampled, instances, paste_out,
                   self, build_vars, texts_vars>>

Next ==
    \/ Enter
    \/ CopyPaste
    \/ Sample
    \/ Regenerate
    \/ Pack
    \/ ReturnInference
    \/ TransformAnnotations
    \/ ReturnTraining

Spec == Init /\ [][Next]_vars

----------------------------------------------------------------------------
(* Properties of build_transform_gen (SpecBuild) *)

\* C6: with is_train true, the list build_transform_gen returns ends with
\* ResizeScale(min_scale, max_scale, image_size, image_size) followed by
\* FixedSizeCrop(image_size, image_size); a RandomFlip stands before them if
\* and only if RANDOM_FLIP is not "none"; its horizontal is set exactly for
\* "horizontal", its vertical exactly for "vertical", and it flips along at
\* least one axis.  The three documented modes always return a list.
C6_TransformList ==
    (bpc = "done" /\ is_train_arg) =>
        /\ cfg.RANDOM_FLIP \in {"none", "horizontal", "vertical"} => built.exc = "none"
        /\ built.exc = "none" =>
             LET L == built.value
                 n == Len(L)
             IN  /\ n = (IF cfg.RANDOM_FLIP # "none" THEN 3 ELSE 2)
                 /\ L[n] = [aug |-> "FixedSizeCrop",
                            crop_size |-> <<cfg.IMAGE_SIZE, cfg.IMAGE_SIZE>>]
                 /\ L[n - 1] = [aug |-> "ResizeScale",
                                min_scale |-> cfg.MIN_SCALE, max_scale |-> cfg.MAX_SCALE,
                                target_height |-> cfg.IMAGE_SIZE, target_width |-> cfg.IMAGE_SIZE]
                 /\ cfg.RANDOM_FLIP # "none" =>
                       /\ L[1].aug = "RandomFlip"
                       /\ L[1].horizontal <=> (cfg.RANDOM_FLIP = "horizontal")
                       /\ L[1].vertical <=> (cfg.RANDOM_FLIP = "vertical")
                       /\ L[1].horizontal \/ L[1].vertical

\* A vertical flip was configured and the list of three was returned.
C6_Witness ==
    /\ bpc = "done" /\ is_train_arg /\ cfg.RANDOM_FLIP = "vertical"
    /\ built.exc = "none" /\ Len(built.value) = 3
    /\ cfg.MIN_SCALE < cfg.MAX_SCALE

----------------------------------------------------------------------------
(* Properties of _get_texts (SpecTexts) *)

\* The class id whose group holds position j when the instances are grouped
\* in the order of class_names.
GroupedClass(classes, j) ==
    CHOOSE c \in ClassIds :
        /\ Cardinality({k \in 1..Len(classes) : classes[k] < c}) < j
        /\ j <= Cardinality({k \in 1..Len(classes) : classes[k] <= c})

\* C3: _get_texts returns exactly num_queries texts and raises nothing; with
\* n class ids, the first min(n, num_queries) are the class prompts grouped
\* in class_names order, one per instance, and the others are the default.
C3_Texts ==
    tpc = "done" =>
        /\ texts_out.exc = "none"
        /\ Len(texts_out.value) = self.num_queries
        /\ \A j \in 1..self.num_queries :
              texts_out.value[j] =
                 IF j <= Min(Len(classes_in), self.num_queries)
                 THEN Prompt(class_names[GroupedClass(classes_in, j) + 1])
                 ELSE DefaultText

\* More instances than queries, given out of class order.
C3_Witness ==
    /\ tpc = "done"
    /\ self.num_queries > 0
    /\ Len(classes_in) > self.num_queries
    /\ classes_in[1] > classes_in[2]
    /\ texts_out.exc = "none"

----------------------------------------------------------------------------
(* Properties of __call__ (Spec) *)

\* C1: __call__ never modifies the record it is given: at every point of the
\* call, and after it returned or raised, the caller's dictionary, its
\* annotations list and the annotation dicts are the objects they were, and
\* the value read through the caller's reference is the value given.
C1_CallerRecordUntouched ==
    /\ Len(heap) >= Len(given.objects)
    /\ SubSeq(heap, 1, Len(given.objects)) = given.objects
    /\ DeepValue(heap, Ref(given.addr)) = given.value

\* The call returned for an annotated record, and its own copy was rewritten.
C1_Witness ==
    /\ pc = "done" /\ ret.exc = "none"
    /\ "annotations" \in DOMAIN given.value
    /\ Len(given.value.annotations) > 0
    /\ "width" \notin DOMAIN given.value
    /\ dataset_dict # given.addr
    /\ "text" \in DOMAIN heap[dataset_dict].body
    /\ "annotations" \notin DOMAIN heap[dataset_dict].body

\* C2: after line 285 the record's annotations are exactly one annotation per
\* mask the augmentation returned, in the same order; annotation i holds the
\* polygons of mask i, the label i, iscrowd 0, XYWH_ABS and the box
\* [x1, y1, x2 - x1, y2 - y1] of box i; the original annotations are gone.
C2_RegeneratedAnnotations ==
    pc = "regenerated" =>
        LET anns == DeepValue(heap, heap[dataset_dict].body["annotations"])
        IN  /\ Len(anns) = Len(paste_out.masks)
            /\ \A i \in 1..Len(anns) :
                  anns[i] = [iscrowd      |-> 0,
                             bbox         |-> << paste_out.boxes[i][1], paste_out.boxes[i][2],
                                                 paste_out.boxes[i][3] - paste_out.boxes[i][1],
                                                 paste_out.boxes[i][4] - paste_out.boxes[i][2] >>,
                             category_id  |-> paste_out.labels[i],
                             segmentation |-> MaskPolygons(paste_out.masks[i], 1),
                             bbox_mode    |-> "XYWH_ABS"]

\* Two different instances came back for a record that had one annotation.
C2_Witness ==
    /\ pc = "regenerated"
    /\ Len(given.value.annotations) = 1
    /\ Len(paste_out.masks) = 2
    /\ paste_out.masks[1] # paste_out.masks[2]
    /\ paste_out.boxes[1][1] > 0
    /\ Len(MaskPolygons(paste_out.masks[2], 1)) = 1

\* C4 (as claimed): a record without annotations, or with an empty list of
\* them, is mapped without an exception.
C4_NoAnnotationsNoException ==
    ("annotations" \notin DOMAIN given.value \/ Len(given.value.annotations) = 0)
        => pc # "raised"

\* The box of the i-th instance the augmentation returned, through tfms and
\* clipped to the image.
ExpectedBox(tfms, i, shape) ==
    LET b == apply_box(tfms, paste_out.boxes[i], 1)
    IN  <<Min(Max(b[1], 0), shape[2]), Min(Max(b[2], 0), shape[1]),
          Min(Max(b[3], 0), shape[2]), Min(Max(b[4], 0), shape[1])>>

\* C5: the transform is sampled once, after the copy-paste augmentation and on
\* its output image; the transform applied to the padding mask and to every
\* regenerated annotation is that one: the image, the padding mask, the boxes
\* and the polygons are what the sampled transforms make of the copy-paste
\* output.
C5_OneSampledTransform ==
    /\ n_sampled <= 1
    /\ "transforms" \in defined =>
          /\ n_sampled = 1
          /\ "image_" \in defined
          /\ image = [shape   |-> apply_shape(transforms, image_.shape, 1),
                      src     |-> "copy_paste",
                      applied |-> transforms]
    /\ "image_shape" \in defined =>
          padding_mask =
             [apply_segmentation(transforms,
                  [shape |-> image_.shape,
                   region |-> <<0, 0, image_.shape[2], image_.shape[1]>>,
                   inverted |-> FALSE], 1) EXCEPT !.inverted = TRUE]
    /\ "instances" \in defined =>
          /\ Len(annos) = Len(paste_out.masks)
          /\ \A i \in 1..Len(annos) :
                /\ annos[i].bbox = ExpectedBox(transforms, i, image.shape)
                /\ annos[i].segmentation =
                      apply_polygons(transforms, MaskPolygons(paste_out.masks[i], 1), 1)

\* A flipped, resized and shifted crop was applied to an instance.
C5_Witness ==
    /\ pc = "transformed"
    /\ Len(transforms) = 4
    /\ transforms[1].op = "HFlip"
    /\ transforms[3].op = "Crop" /\ transforms[3].p[1] > 0
    /\ transforms[4].op = "Pad"
    /\ Len(annos) = 2
    /\ Len(instances.gt_classes) >= 1

====
